---- MODULE Spec2Model ----
(***************************************************************************)
(* DeterministicLinePlot: the merge-and-derive engine of the results       *)
(* chart.  One render turns (data, caseCounts, params, enabledPlots) into  *)
(* plotData, consolidatedPlotData and yDataMax; a legend click toggles a   *)
(* key of enabledPlots and renders again.                                  *)
(*                                                                         *)
(* Encoding of JavaScript values:                                          *)
(*   undefined      <<>>                                                   *)
(*   a number n     <<n>>                                                  *)
(*   an array [a,b] <<a, b>>                                               *)
(* Compartment totals of the trajectory are reals in the source; here      *)
(* they are counted in halves (h stands for h/2), so that Math.round has   *)
(* something to round.  Times are epoch milliseconds, counts are integers. *)
(***************************************************************************)
EXTENDS Integers, Sequences, FiniteSets, TLC

VARIABLES data, caseCounts, population, enabledPlots, clicks,
          consolidatedPlotData, yDataMax, rendered, window

vars == <<data, caseCounts, population, enabledPlots, clicks,
          consolidatedPlotData, yDataMax, rendered, window>>

inputs == <<data, caseCounts, population>>

----------------------------------------------------------------------------
(* Bounds of the model *)

MaxTraj == 2
MaxObs == 2
MaxClicks == 1
MaxWindowObs == 5

(* Program constants *)

caseStep == 3
PaddingTenths == 11

----------------------------------------------------------------------------
(* JavaScript values *)

Undef == <<>>

Num(n) == <<n>>

Truthy(v) ==
    IF Len(v) = 0 THEN FALSE
    ELSE IF Len(v) = 1 THEN v[1] # 0
    ELSE TRUE

OrKeepsLeft(a, b) == a

\* a || b
Or(a, b) == IF Truthy(a) THEN a ELSE b

\* Math.round of h/2: the nearest integer, a tie going up
Round(h) == (h + 1) \div 2

\* d[k] of an object d: undefined when d has no property k
Get(d, k) == IF k \in DOMAIN d THEN d[k] ELSE Undef

\* array.includes(k)
Includes(arr, k) == \E i \in 1..Len(arr) : arr[i] = k

\* array.indexOf(k), 1-based; 0 when absent
IndexOf(arr, k) ==
    IF Includes(arr, k)
    THEN CHOOSE i \in 1..Len(arr) : arr[i] = k /\ \A j \in 1..(i - 1) : arr[j] # k
    ELSE 0

----------------------------------------------------------------------------
(* DATA_POINTS *)

DATA_POINTS ==
    [ Exposed |-> "exposed",
      Susceptible |-> "susceptible",
      Infectious |-> "infectious",
      Severe |-> "severe",
      Critical |-> "critical",
      Overflow |-> "overflow",
      Recovered |-> "recovered",
      Fatalities |-> "fatality",
      CumulativeCases |-> "cumulativeCases",
      NewCases |-> "newCases",
      HospitalBeds |-> "hospitalBeds",
      ICUbeds |-> "ICUbeds",
      ObservedDeaths |-> "observedDeaths",
      ObservedCases |-> "cases",
      ObservedHospitalized |-> "currentHospitalized",
      ObservedICU |-> "ICU",
      ObservedNewCases |-> "newCases" ]

\* Object.values(DATA_POINTS), in insertion order
DataPointValues ==
    << DATA_POINTS.Exposed, DATA_POINTS.Susceptible, DATA_POINTS.Infectious,
       DATA_POINTS.Severe, DATA_POINTS.Critical, DATA_POINTS.Overflow,
       DATA_POINTS.Recovered, DATA_POINTS.Fatalities, DATA_POINTS.CumulativeCases,
       DATA_POINTS.NewCases, DATA_POINTS.HospitalBeds, DATA_POINTS.ICUbeds,
       DATA_POINTS.ObservedDeaths, DATA_POINTS.ObservedCases,
       DATA_POINTS.ObservedHospitalized, DATA_POINTS.ObservedICU,
       DATA_POINTS.ObservedNewCases >>

\* the compartments read from x.current and from x.cumulative
CurrentKeys == { DATA_POINTS.Susceptible, DATA_POINTS.Infectious, DATA_POINTS.Severe,
                 DATA_POINTS.Critical, DATA_POINTS.Overflow }

CumulativeKeys == { DATA_POINTS.Recovered, DATA_POINTS.Fatalities }

ComputedKeys == CurrentKeys \cup CumulativeKeys

AreaKey(m) == m \o "_area"

AreaKeys == { AreaKey(m) : m \in ComputedKeys }

\* the metric of an area key
AreaMetric == [ k \in AreaKeys |-> CHOOSE m \in ComputedKeys : AreaKey(m) = k ]

AreaOf(k) == AreaMetric[k]

ReferenceKeys == { DATA_POINTS.HospitalBeds, DATA_POINTS.ICUbeds }

ObservedKeys == { DATA_POINTS.ObservedCases, DATA_POINTS.ObservedDeaths,
                  DATA_POINTS.ObservedHospitalized, DATA_POINTS.ObservedICU,
                  DATA_POINTS.ObservedNewCases }

----------------------------------------------------------------------------
(* Values derived from the props *)

verifyPositive(x) == IF x > 0 THEN Num(x) ELSE Undef

nHospitalBeds(pop) == verifyPositive(pop.hospitalBeds)

nICUBeds(pop) == verifyPositive(pop.ICUBeds)

nonEmptyCaseCountsUnfiltered(cc) == IF cc = Undef THEN <<>> ELSE cc[1]

\* caseCounts?.filter(...): the records with a truthy count; undefined
\* caseCounts behave as no records in everything derived below (?? 0, ?? [])
nonEmptyCaseCounts(cc) ==
    IF cc = Undef THEN <<>>
    ELSE SelectSeq(cc[1], LAMBDA d :
            Truthy(d.cases) \/ Truthy(d.deaths) \/ Truthy(d.icu) \/ Truthy(d.hospitalized))

newCasesUnverified(cc, i) ==
    IF i >= caseStep /\ Truthy(cc[i + 1].cases) /\ Truthy(cc[i + 1 - caseStep].cases)
    THEN Num(cc[i + 1].cases[1] - cc[i + 1 - caseStep].cases[1])
    ELSE Undef

\* newCases(cc, i) with the source's 0-based index i
newCases(cc, i) ==
    IF i >= caseStep /\ Truthy(cc[i + 1].cases) /\ Truthy(cc[i + 1 - caseStep].cases)
    THEN verifyPositive(cc[i + 1].cases[1] - cc[i + 1 - caseStep].cases[1])
    ELSE Undef

countObservations(cc) ==
    LET ne == nonEmptyCaseCounts(cc)
        idx == 1..Len(ne)
    IN  [ cases |-> Cardinality({ i \in idx : Truthy(ne[i].cases) }),
          ICU |-> Cardinality({ i \in idx : Truthy(ne[i].icu) }),
          observedDeaths |-> Cardinality({ i \in idx : Truthy(ne[i].deaths) }),
          newCases |-> Cardinality({ i \in idx : Truthy(newCases(ne, i - 1)) }),
          hospitalized |-> Cardinality({ i \in idx : Truthy(ne[i].hospitalized) }) ]

ObservationKeys == { "time" } \cup ObservedKeys \cup ReferenceKeys

observation(ne, i, enabled, pop) ==
    LET d == ne[i]
    IN  [ k \in ObservationKeys |->
            CASE k = "time" -> Num(d.time)
              [] k = "cases" ->
                    IF Includes(enabled, DATA_POINTS.ObservedCases)
                    THEN Or(d.cases, Undef) ELSE Undef
              [] k = "observedDeaths" ->
                    IF Includes(enabled, DATA_POINTS.ObservedDeaths)
                    THEN Or(d.deaths, Undef) ELSE Undef
              [] k = "currentHospitalized" ->
                    IF Includes(enabled, DATA_POINTS.ObservedHospitalized)
                    THEN Or(d.hospitalized, Undef) ELSE Undef
              [] k = "ICU" ->
                    IF Includes(enabled, DATA_POINTS.ObservedICU)
                    THEN Or(d.icu, Undef) ELSE Undef
              [] k = "newCases" ->
                    IF Includes(enabled, DATA_POINTS.ObservedNewCases)
                    THEN newCases(ne, i - 1) ELSE Undef
              [] k = "hospitalBeds" -> nHospitalBeds(pop)
              [] k = "ICUbeds" -> nICUBeds(pop) ]

observations(cc, enabled, pop) ==
    LET ne == nonEmptyCaseCounts(cc)
    IN  [ i \in 1..Len(ne) |-> observation(ne, i, enabled, pop) ]

----------------------------------------------------------------------------
(* The trajectory part of plotData *)

Total(x, m) == IF m \in CumulativeKeys THEN x.cumulative[m] ELSE x.current[m]

TrajectoryKeys == { "time" } \cup ComputedKeys \cup ReferenceKeys \cup AreaKeys

ErrorBar(lo, up, m) == Or(<<Round(Total(lo, m)), Round(Total(up, m))>>, Undef)

trajectoryPoint(dat, i, enabled, pop) ==
    LET x == dat.trajectory.mean[i]
        lower == dat.trajectory.lower
        upper == dat.trajectory.upper
    IN  [ k \in TrajectoryKeys |->
            CASE k = "time" -> Num(x.time)
              [] k \in ComputedKeys ->
                    IF Includes(enabled, k)
                    THEN Or(Num(Round(Total(x, k))), Undef) ELSE Undef
              [] k = "hospitalBeds" -> nHospitalBeds(pop)
              [] k = "ICUbeds" -> nICUBeds(pop)
              [] k \in AreaKeys ->
                    IF Includes(enabled, AreaOf(k))
                    THEN ErrorBar(lower[i], upper[i], AreaOf(k)) ELSE Undef ]

trajectoryPoints(dat, enabled, pop) ==
    [ i \in 1..Len(dat.trajectory.mean) |-> trajectoryPoint(dat, i, enabled, pop) ]

\* plotData before the sort: [...mean.map(...), ...observations]
PlotDataUnsorted(dat, cc, enabled, pop) ==
    trajectoryPoints(dat, enabled, pop) \o observations(cc, enabled, pop)

----------------------------------------------------------------------------
(* plotData.sort((a, b) => (a.time > b.time ? 1 : -1)) *)

Comparator(a, b) == IF a.time[1] > b.time[1] THEN 1 ELSE -1

\* The comparator never returns 0, so it is not a consistent comparison
\* function and the order the sort leaves is implementation-defined.  Every
\* comparison sort leaves an arrangement the comparator's answers agree with:
\* an element stands before another only if Comparator(earlier, later) < 0.
\* Which of the arrangements it is depends on the engine (among points of
\* equal time any order can come out), so the sort is a choice among them.
\* SortPerms gives the arrangements as sequences of indices into pd.
RECURSIVE SortPerms(_, _)
SortPerms(pd, S) ==
    IF S = {} THEN { <<>> }
    ELSE UNION { { <<i>> \o q : q \in SortPerms(pd, S \ {i}) } :
                 i \in { i \in S : \A j \in S \ {i} : Comparator(pd[i], pd[j]) < 0 } }

Arrange(pd, p) == [ i \in 1..Len(p) |-> pd[p[i]] ]

SortOutcomes(pd) == { Arrange(pd, p) : p \in SortPerms(pd, 1..Len(pd)) }

----------------------------------------------------------------------------
(* consolidatedPlotData *)

\* { ...a, ...d }: every own property of d, undefined ones included, over a
Spread(a, d) ==
    [ k \in (DOMAIN a) \cup (DOMAIN d) |-> IF k \in DOMAIN d THEN d[k] ELSE a[k] ]

\* consolidatedPlotData after the forEach has visited pd[1..n]
RECURSIVE ConsolidateUpTo(_, _)
ConsolidateUpTo(pd, n) ==
    IF n = 0 THEN << pd[1] >>
    ELSE LET acc == ConsolidateUpTo(pd, n - 1)
             d == pd[n]
             last == acc[Len(acc)]
         IN  IF d.time = last.time
             THEN [ acc EXCEPT ![Len(acc)] = Spread(last, d) ]
             ELSE Append(acc, d)

ConsolidateKeepsAll(pd) == pd

Consolidate(pd) == ConsolidateUpTo(pd, Len(pd))

----------------------------------------------------------------------------
(* yDataMax *)

\* _.max of an array: the largest number, undefined entries skipped;
\* undefined when there is none
LodashMax(vals) ==
    LET nums == { vals[i][1] : i \in { j \in 1..Len(vals) : vals[j] # Undef } }
    IN  IF nums = {} THEN Undef
        ELSE Num(CHOOSE m \in nums : \A n \in nums : n <= m)

dataKeysWithCapacity(enabled) == enabled

dataKeys(enabled) ==
    SelectSeq(enabled, LAMBDA d : d # DATA_POINTS.HospitalBeds /\ d # DATA_POINTS.ICUbeds)

MaxOfPoint(d, keys) == LodashMax([ j \in 1..Len(keys) |-> Get(d, keys[j]) ])

yDataMaxOf(cpd, enabled) ==
    LET keys == dataKeys(enabled)
    IN  LodashMax([ i \in 1..Len(cpd) |-> MaxOfPoint(cpd[i], keys) ])

\* the upper end of the YAxis domain, yDataMax * 1.1, in tenths;
\* undefined * 1.1 is NaN
YAxisDomainMax(y) ==
    IF y = Undef THEN [ nan |-> TRUE, tenths |-> 0 ]
    ELSE [ nan |-> FALSE, tenths |-> y[1] * PaddingTenths ]

----------------------------------------------------------------------------
(* The legend *)

linesToPlot ==
    << [ key |-> DATA_POINTS.Susceptible, legendType |-> "line" ],
       [ key |-> DATA_POINTS.Recovered, legendType |-> "line" ],
       [ key |-> DATA_POINTS.Infectious, legendType |-> "line" ],
       [ key |-> DATA_POINTS.Severe, legendType |-> "line" ],
       [ key |-> DATA_POINTS.Critical, legendType |-> "line" ],
       [ key |-> DATA_POINTS.Overflow, legendType |-> "line" ],
       [ key |-> DATA_POINTS.Fatalities, legendType |-> "line" ],
       [ key |-> DATA_POINTS.HospitalBeds, legendType |-> "none" ],
       [ key |-> DATA_POINTS.ICUbeds, legendType |-> "none" ] >>

\* the keys of scatterToPlot; a Scatter has the default legend type
scatterToPlot(cc) ==
    LET n == countObservations(cc)
    IN  IF Len(nonEmptyCaseCounts(cc)) = 0 THEN {}
        ELSE (IF n.cases # 0 THEN { DATA_POINTS.ObservedCases } ELSE {})
             \cup (IF n.newCases # 0 THEN { DATA_POINTS.ObservedNewCases } ELSE {})
             \cup (IF n.hospitalized # 0 THEN { DATA_POINTS.ObservedHospitalized } ELSE {})
             \cup (IF n.ICU # 0 THEN { DATA_POINTS.ObservedICU } ELSE {})
             \cup (IF n.observedDeaths # 0 THEN { DATA_POINTS.ObservedDeaths } ELSE {})

\* the dataKeys a legend click can carry: the Legend lists the chart's
\* series whose legendType is not 'none' (every area of areasToPlot is 'none')
LegendDataKeys(cc) ==
    { linesToPlot[i].key : i \in { j \in 1..Len(linesToPlot) : linesToPlot[j].legendType # "none" } }
    \cup scatterToPlot(cc)

\* plots.splice(plots.indexOf(key), 1) or plots.push(key)
Toggle(enabled, key) ==
    IF Includes(enabled, key)
    THEN LET at == IndexOf(enabled, key)
         IN  SubSeq(enabled, 1, at - 1) \o SubSeq(enabled, at + 1, Len(enabled))
    ELSE Append(enabled, key)

----------------------------------------------------------------------------------------------------------------------------------------------------------------------------------------------------
(* One render of the component: what it computes from the props and the    *)
(* enabled list, one outcome for each order the sort can leave.  The early *)
(* returns (no data, empty plotData) compute nothing and return null.      *)

NothingRendered == [ consolidatedPlotData |-> <<>>, yDataMax |-> Undef, returned |-> "null" ]

Chart(pd, enabled) ==
    LET cpd == Consolidate(pd)
    IN  [ consolidatedPlotData |-> cpd,
          yDataMax |-> yDataMaxOf(cpd, enabled),
          returned |-> "chart" ]

DeterministicLinePlot(dat, cc, pop, enabled) ==
    IF dat = Undef THEN { NothingRendered }
    ELSE LET unsorted == PlotDataUnsorted(dat[1], cc, enabled, pop)
         IN  IF Len(unsorted) = 0 THEN { NothingRendered }
             ELSE { Chart(pd, enabled) : pd \in SortOutcomes(unsorted) }

----------------------------------------------------------------------------
(* Inputs *)

Times == { 10, 20, 30 }

ObservedTimes == { 10, 20 }

\* totals in halves: <<susceptible, the other current compartments, cumulative>>
Profiles ==
    { [ mean |-> <<0, 0, 0>>,  lower |-> <<0, 0, 0>>,  upper |-> <<2, 1, 0>> ],
      [ mean |-> <<20, 3, 1>>, lower |-> <<18, 1, 0>>, upper |-> <<22, 5, 3>> ] }

Sample(t, v) ==
    [ time |-> t,
      current |-> [ k \in CurrentKeys |-> IF k = DATA_POINTS.Susceptible THEN v[1] ELSE v[2] ],
      cumulative |-> [ k \in CumulativeKeys |-> v[3] ] ]

Trajectory(tp) ==
    [ trajectory |->
        [ mean |-> [ i \in 1..Len(tp) |-> Sample(tp[i][1], tp[i][2].mean) ],
          lower |-> [ i \in 1..Len(tp) |-> Sample(tp[i][1], tp[i][2].lower) ],
          upper |-> [ i \in 1..Len(tp) |-> Sample(tp[i][1], tp[i][2].upper) ] ] ]

SeqsUpTo(S, n) == UNION { [ 1..len -> S ] : len \in 0..n }

\* the simulation's samples are in ascending time
Trajectories(n) ==
    { Trajectory(tp) : tp \in { q \in SeqsUpTo(Times \X Profiles, n) :
                                  \A i \in 1..(Len(q) - 1) : q[i][1] < q[i + 1][1] } }

Record(t, c) ==
    [ time |-> t, cases |-> c.cases, deaths |-> c.deaths, icu |-> c.icu,
      hospitalized |-> c.hospitalized ]

\* records of any time, in any order, two of them sharing the cases field
Counts ==
    { [ cases |-> Num(5), deaths |-> Undef,  icu |-> Num(1), hospitalized |-> Undef ],
      [ cases |-> Num(3), deaths |-> Num(2), icu |-> Num(0), hospitalized |-> Num(4) ],
      [ cases |-> Num(0), deaths |-> Undef,  icu |-> Num(0), hospitalized |-> Undef ] }

\* the record without a count comes at the later time only
TimedCounts == { tc \in ObservedTimes \X Counts : Truthy(tc[2].cases) \/ tc[1] = 20 }

CaseCounts(n) ==
    { [ i \in 1..Len(tc) |-> Record(tc[i][1], tc[i][2]) ] : tc \in SeqsUpTo(TimedCounts, n) }

\* one record a day, long enough for the window of caseStep records
DailyCounts ==
    { [ cases |-> Num(1), deaths |-> Undef,  icu |-> Undef, hospitalized |-> Undef ],
      [ cases |-> Num(3), deaths |-> Undef,  icu |-> Undef, hospitalized |-> Undef ],
      [ cases |-> Num(0), deaths |-> Num(2), icu |-> Undef, hospitalized |-> Undef ],
      [ cases |-> Undef,  deaths |-> Num(2), icu |-> Undef, hospitalized |-> Undef ],
      [ cases |-> Num(0), deaths |-> Undef,  icu |-> Undef, hospitalized |-> Undef ] }

\* the daily records that count cases or nothing
DailyCases == { c \in DailyCounts : c.deaths = Undef }

DayMs == 24 * 60 * 60 * 1000

Daily(S, n) == { [ i \in 1..Len(c) |-> Record(i * DayMs, c[i]) ] : c \in SeqsUpTo(S, n) }

BedCounts == { 0, 40 }

Populations == [ hospitalBeds : BedCounts, ICUBeds : BedCounts ]

----------------------------------------------------------------------------
(* The component *)

\* any trajectory, with one observation record at most
TrajectoryProps ==
    /\ data \in { Undef } \cup { <<d>> : d \in Trajectories(MaxTraj) }
    /\ caseCounts \in { Undef } \cup { <<c>> : c \in CaseCounts(1) }
    /\ population = [ hospitalBeds |-> 0, ICUBeds |-> 40 ]

\* any observation records, in any order of time, over no sample or the one
\* sample at the first time whose totals do not round to zero
ObservationProps ==
    /\ data \in { <<d>> : d \in { t \in Trajectories(1) :
                                  \A i \in 1..Len(t.trajectory.mean) :
                                      /\ t.trajectory.mean[i].time = 10
                                      /\ t.trajectory.mean[i].cumulative.fatality # 0 } }
    /\ caseCounts \in { <<c>> : c \in CaseCounts(MaxObs) }
    /\ population = [ hospitalBeds |-> 0, ICUBeds |-> 40 ]

\* daily observations over an empty trajectory, as many as one window takes
WindowProps ==
    /\ data = << Trajectory(<<>>) >>
    /\ caseCounts \in { <<c>> : c \in Daily(DailyCases, caseStep + 1) }
    /\ population = [ hospitalBeds |-> 40, ICUBeds |-> 0 ]

InitProps == TrajectoryProps \/ ObservationProps \/ WindowProps

InitState ==
    /\ enabledPlots = DataPointValues
    /\ clicks = 0
    /\ \E out \in DeterministicLinePlot(data, caseCounts, population, enabledPlots) :
          /\ consolidatedPlotData = out.consolidatedPlotData
          /\ yDataMax = out.yDataMax
          /\ rendered = out.returned
    /\ window = Undef

Init == InitProps /\ InitState

\* Legend onClick with e.dataKey = key, and the render that setEnabledPlots
\* causes
LegendClick(key) ==
    /\ rendered = "chart"
    /\ clicks < MaxClicks
    /\ clicks' = clicks + 1
    /\ enabledPlots' = Toggle(enabledPlots, key)
    /\ \E out \in DeterministicLinePlot(data, caseCounts, population, enabledPlots') :
          /\ consolidatedPlotData' = out.consolidatedPlotData
          /\ yDataMax' = out.yDataMax
          /\ rendered' = out.returned
    /\ UNCHANGED <<inputs, window>>

Next == \E key \in LegendDataKeys(caseCounts) : LegendClick(key)

Spec == Init /\ [][Next]_vars

----------------------------------------------------------------------------
(* newCases on its own: daily records of every kind, and the callback of   *)
(* nonEmptyCaseCounts.map applied at one index after the other.            *)

InitNewCases ==
    /\ data = << Trajectory(<<>>) >>
    /\ caseCounts \in { <<c>> : c \in Daily(DailyCounts, MaxWindowObs) }
    /\ population = [ hospitalBeds |-> 40, ICUBeds |-> 0 ]
    /\ InitState

\* the map's callback at index i (0-based), i going up
MapNewCases ==
    LET i == IF window = Undef THEN 0 ELSE window[1] + 1
        ne == nonEmptyCaseCounts(caseCounts)
    IN  /\ i < Len(ne)
        /\ window' = << i, newCases(ne, i) >>
        /\ UNCHANGED <<inputs, enabledPlots, clicks, consolidatedPlotData, yDataMax, rendered>>

NextNewCases == MapNewCases

SpecNewCases == InitNewCases /\ [][NextNewCases]_vars

----------------------------------------------------------------------------
(* What the properties below speak of *)

Charted == rendered = "chart"

\* plotData as concatenated, before the sort, in the current state
Concatenated == PlotDataUnsorted(data[1], caseCounts, enabledPlots, population)

MetricKeys == ComputedKeys \cup ObservedKeys \cup ReferenceKeys

Present(d, k) == Get(d, k) # Undef

TimeOf(d) == d.time[1]

SeriesTimes == { TimeOf(consolidatedPlotData[i]) : i \in 1..Len(consolidatedPlotData) }

\* the TimePoint of the consolidated series at time t
PointAt(t) ==
    consolidatedPlotData[CHOOSE i \in 1..Len(consolidatedPlotData) :
                            TimeOf(consolidatedPlotData[i]) = t]

HasCount(d) ==
    \E v \in { d.cases, d.deaths, d.icu, d.hospitalized } : v # Undef /\ v # Num(0)

Records == IF caseCounts = Undef THEN <<>> ELSE caseCounts[1]

SharedTime ==
    \E i, j \in 1..Len(Concatenated) : i # j /\ Concatenated[i].time = Concatenated[j].time

----------------------------------------------------------------------------
\* C1: the consolidated series has strictly ascending timestamps: each
\* TimePoint's timestamp is less than the next one's, so none occurs twice.
SortedUnique ==
    \A i \in 1..(Len(consolidatedPlotData) - 1) :
        TimeOf(consolidatedPlotData[i]) < TimeOf(consolidatedPlotData[i + 1])

\* a chart of two or more TimePoints made from points that shared a time
SortedUniqueWitness ==
    /\ Charted
    /\ SharedTime
    /\ Len(consolidatedPlotData) >= 2
    /\ \E i \in 1..(Len(Concatenated) - 1) : TimeOf(Concatenated[i]) > TimeOf(Concatenated[i + 1])

\* C2: consolidation is a field-wise union: a value that a source point
\* defines is still defined on the TimePoint of its timestamp, whatever
\* other points at that timestamp leave undefined.
FieldWiseUnion ==
    Charted =>
        \A i \in 1..Len(Concatenated) : \A k \in DOMAIN Concatenated[i] :
            Present(Concatenated[i], k) => Present(PointAt(TimeOf(Concatenated[i])), k)

\* C3: a legend click on an enabled key leaves no TimePoint with a value
\* for that key in the series computed after it.
ToggleSafety ==
    [][ \A key \in LegendDataKeys(caseCounts) :
            ( /\ Charted
              /\ clicks' = clicks + 1
              /\ Includes(enabledPlots, key)
              /\ enabledPlots' = Toggle(enabledPlots, key) )
            => \A i \in 1..Len(consolidatedPlotData') :
                   ~Present(consolidatedPlotData'[i], key) ]_vars

----------------------------------------------------------------------------
(* The window delta, said without the source's truthiness tests *)

\* the records with a count, in order
Filtered == SelectSeq(Records, HasCount)

CasesAt(i) == Filtered[i + 1].cases

Delta(i) == CasesAt(i)[1] - CasesAt(i - 3)[1]

\* C4 as claimed: newCases(cc, i) is defined exactly when i >= 3, both
\* cases are defined and their difference is positive, and is the difference.
WindowDeltaLawAsClaimed ==
    window # Undef =>
        LET i == window[1]
            defined == /\ i >= 3
                       /\ CasesAt(i) # Undef
                       /\ CasesAt(i - 3) # Undef
                       /\ Delta(i) > 0
        IN  /\ (window[2] # Undef) <=> defined
            /\ defined => window[2] = Num(Delta(i))

\* C4 as amended: newCases(cc, i) is defined exactly when i >= 3, both cases
\* are defined and non-zero and their difference is positive, and is the
\* difference; i counts the filtered records.
WindowDeltaLaw ==
    window # Undef =>
        LET i == window[1]
            defined == /\ i >= 3
                       /\ CasesAt(i) # Undef /\ CasesAt(i) # Num(0)
                       /\ CasesAt(i - 3) # Undef /\ CasesAt(i - 3) # Num(0)
                       /\ Delta(i) > 0
        IN  /\ (window[2] # Undef) <=> defined
            /\ defined => window[2] = Num(Delta(i))

\* the window reached a defined delta, past a record the filter dropped
WindowDeltaWitness ==
    /\ window # Undef
    /\ window[2] # Undef
    /\ Len(Filtered) < Len(Records)

----------------------------------------------------------------------------
(* yMax *)

\* every value of an enabled metric that is no capacity line
ScaledValues ==
    { Get(consolidatedPlotData[i], k)[1] :
        <<i, k>> \in { ik \in (1..Len(consolidatedPlotData)) \X (MetricKeys \ ReferenceKeys) :
                        /\ Includes(enabledPlots, ik[2])
                        /\ Present(consolidatedPlotData[ik[1]], ik[2]) } }

\* yDataMax of the same render with other bed capacities: the same sort,
\* so the same arrangement of the same points
yDataMaxWith(pop) ==
    LET here == Concatenated
        there == PlotDataUnsorted(data[1], caseCounts, enabledPlots, pop)
    IN  { yDataMaxOf(Consolidate(Arrange(there, p)), enabledPlots) :
            p \in { q \in SortPerms(here, 1..Len(here)) :
                      Consolidate(Arrange(here, q)) = consolidatedPlotData } }

\* C5: the upper end of the value axis is 1.1 times the largest value of an
\* enabled metric other than hospitalBeds and ICUbeds, and the bed
\* capacities have no influence on it.
DomainExclusion ==
    Charted =>
        /\ ScaledValues # {} =>
              /\ yDataMax # Undef
              /\ yDataMax[1] \in ScaledValues
              /\ \A v \in ScaledValues : v <= yDataMax[1]
              /\ YAxisDomainMax(yDataMax) = [ nan |-> FALSE, tenths |-> 11 * yDataMax[1] ]
        /\ \A pop \in Populations : yDataMaxWith(pop) = { yDataMax }

\* a chart with a capacity line above every scaled value
DomainExclusionWitness ==
    /\ Charted
    /\ ScaledValues # {}
    /\ \E i \in 1..Len(consolidatedPlotData) : \E k \in ReferenceKeys :
          /\ Includes(enabledPlots, k)
          /\ Present(consolidatedPlotData[i], k)
          /\ \A v \in ScaledValues : v < consolidatedPlotData[i][k][1]

\* C6: with no value of an enabled, non-reference metric in the series,
\* nothing is rendered: no chart has a value axis made from an undefined
\* maximum.
UndefinedMaxSuppressed ==
    yDataMax = Undef => rendered = "null"

----------------------------------------------------------------------------
\* C7: every metric value present in a TimePoint is non-zero and belongs to
\* an enabled metric.
ZeroNeverStored ==
    \A i \in 1..Len(consolidatedPlotData) : \A k \in MetricKeys :
        Present(consolidatedPlotData[i], k) =>
            /\ consolidatedPlotData[i][k][1] # 0
            /\ Includes(enabledPlots, k)

\* a chart after a click, of a trajectory with a total that rounds to zero
\* and a record with a zero count
ZeroNeverStoredWitness ==
    /\ Charted
    /\ clicks > 0
    /\ \E k \in MetricKeys : ~Includes(enabledPlots, k)
    /\ \E i \in 1..Len(data[1].trajectory.mean) : \E m \in ComputedKeys :
          /\ Includes(enabledPlots, m)
          /\ Round(Total(data[1].trajectory.mean[i], m)) = 0
    /\ \E i \in 1..Len(Filtered) : Filtered[i].icu = Num(0) \/ Filtered[i].cases = Num(0)

\* the timestamps of the mean samples and of the records with a count
InputTimes ==
    { data[1].trajectory.mean[i].time : i \in 1..Len(data[1].trajectory.mean) }
    \cup { Records[i].time : i \in { j \in 1..Len(Records) : HasCount(Records[j]) } }

\* C8: the series has one TimePoint for each timestamp of the trajectory's
\* mean samples and of the observation records that carry a non-zero count,
\* and no other.
OnePointPerTimestamp ==
    data # Undef =>
        /\ SeriesTimes = InputTimes
        /\ Len(consolidatedPlotData) = Cardinality(InputTimes)

\* a chart whose inputs share a timestamp and hold a record without a
\* count, at a time of its own
OnePointPerTimestampWitness ==
    /\ Charted
    /\ SharedTime
    /\ \E i \in 1..Len(Records) : ~HasCount(Records[i]) /\ Records[i].time \notin SeriesTimes

\* C9: in the TimePoint of every trajectory index the band of a metric is
\* present exactly when the metric's value is.
BandIffValue ==
    Charted =>
        \A i \in 1..Len(data[1].trajectory.mean) : \A m \in ComputedKeys :
            Present(Concatenated[i], AreaKey(m)) <=> Present(Concatenated[i], m)

\* C10: the sort is stable, so at every timestamp the values of the point
\* that came last in the concatenation are the ones in the TimePoint.
StableSort ==
    Charted =>
        \A j \in 1..Len(Concatenated) :
            (\A l \in (j + 1)..Len(Concatenated) : Concatenated[l].time # Concatenated[j].time)
            => \A k \in DOMAIN Concatenated[j] :
                   Present(Concatenated[j], k) =>
                       PointAt(TimeOf(Concatenated[j]))[k] = Concatenated[j][k]

====
